---- MODULE Spec2Model ----
(***************************************************************************)
(* A model of ECGXMLReader (src/ECGXMLReader.py): the constructor, which   *)
(* parses an ECG XML export and decodes every lead's base64 waveform into  *)
(* 16-bit samples, the optional derivation of the leads III, aVR, aVL and  *)
(* aVF, and the query methods.                                             *)
(*                                                                         *)
(* Representation.  A WaveFormData string is a sequence of symbols: 0..63  *)
(* are the values of the base64 alphabet, PadChar is '=', NonAlpha is any  *)
(* character outside the alphabet.  A numpy array is a record              *)
(* [dtype, v]: for dtype "int16" v holds the samples, for dtype "float64"  *)
(* v holds the values in units of one half (every float the code computes  *)
(* is a multiple of 0.5 of magnitude below 2^17, exact in a double).       *)
(* A python dict keyed by lead ID is a function on a finite set of strings.*)
(***************************************************************************)
EXTENDS Integers, Sequences, FiniteSets, TLC

\* The largest number of Waveform elements in a document of the model.
MaxNodes == 2

\* The lead count that triggers the derivation (line 90).
AugmentCount == 8
\* Bytes per item of array typecode 'h' (line 84).
ItemSize == 2
\* The base64 pad character '=' and a character outside the alphabet (line 83).
PadChar == 64
NonAlpha == 65

ByteMod == 256
Int16Mod == ByteMod * ByteMod
Int16Half == Int16Mod \div 2

(***************************************************************************)
(* base64.b64decode(s) (validate=False), as binascii.a2b_base64 computes   *)
(* it: characters outside the alphabet are discarded; a pad ends the input *)
(* once it completes a quad of which at least two characters were data;    *)
(* input that ends inside a quad raises binascii.Error.                    *)
(***************************************************************************)
RECURSIVE A2bBase64(_, _, _, _, _, _)
A2bBase64(s, i, quad_pos, leftchar, pads, out) ==
    IF i > Len(s)
    THEN [raised |-> quad_pos # 0, bytes |-> out]
    ELSE LET c == s[i] IN
         IF c = PadChar
         THEN IF quad_pos >= 2 /\ quad_pos + pads + 1 >= 4
              THEN [raised |-> FALSE, bytes |-> out]
              ELSE A2bBase64(s, i + 1, quad_pos, leftchar,
                             IF quad_pos >= 2 THEN pads + 1 ELSE pads, out)
         ELSE IF c >= 64
         THEN A2bBase64(s, i + 1, quad_pos, leftchar, pads, out)
         ELSE CASE quad_pos = 0 ->
                     A2bBase64(s, i + 1, 1, c, 0, out)
                [] quad_pos = 1 ->
                     A2bBase64(s, i + 1, 2, c % 16, 0,
                               Append(out, leftchar * 4 + c \div 16))
                [] quad_pos = 2 ->
                     A2bBase64(s, i + 1, 3, c % 4, 0,
                               Append(out, leftchar * 16 + c \div 4))
                [] OTHER ->
                     A2bBase64(s, i + 1, 0, 0, 0,
                               Append(out, leftchar * 64 + c))

B64Decode(s) == A2bBase64(s, 1, 0, 0, 0, <<>>)

(***************************************************************************)
(* array.array('h', bytes): the bytes taken two by two as signed 16-bit    *)
(* integers in the host's byte order (little-endian on the hosts modelled; *)
(* the low byte first); a length that is no multiple of the item size      *)
(* raises ValueError.                                                      *)
(***************************************************************************)
ToSigned16(u) == IF u >= Int16Half THEN u - Int16Mod ELSE u

ArrayH(bytes) ==
    IF Len(bytes) % ItemSize # 0
    THEN [raised |-> TRUE, vals |-> <<>>]
    ELSE [raised |-> FALSE,
          vals |-> [k \in 1..(Len(bytes) \div ItemSize) |->
                      ToSigned16(bytes[2 * k - 1] + bytes[2 * k] * ByteMod)]]

\* np.array(array.array('h', ...)): an int16 array.
NpInt16(vals) == [dtype |-> "int16", v |-> vals]

(***************************************************************************)
(* numpy arithmetic on one-dimensional arrays.  Shapes broadcast when the  *)
(* lengths agree or one of them is 1, and raise ValueError otherwise.      *)
(* int16 with int16 stays int16 and wraps around; an operation with a      *)
(* python float gives float64.                                             *)
(***************************************************************************)
Wrap16(x) == ((x + Int16Half) % Int16Mod) - Int16Half

Broadcastable(a, b) == Len(a.v) = Len(b.v) \/ Len(a.v) = 1 \/ Len(b.v) = 1
BroadcastLen(a, b) == IF Len(a.v) = 1 THEN Len(b.v) ELSE Len(a.v)
At(a, k) == IF Len(a.v) = 1 THEN a.v[1] ELSE a.v[k]

\* The value of an element in units of one half.
Halves(a, k) == IF a.dtype = "int16" THEN 2 * At(a, k) ELSE At(a, k)

\* np.subtract(a, b)
NpSubtract(a, b) ==
    IF a.dtype = "int16" /\ b.dtype = "int16"
    THEN [dtype |-> "int16",
          v |-> [k \in 1..BroadcastLen(a, b) |-> Wrap16(At(a, k) - At(b, k))]]
    ELSE [dtype |-> "float64",
          v |-> [k \in 1..BroadcastLen(a, b) |-> Halves(a, k) - Halves(b, k)]]

\* np.add(a, b)
NpAdd(a, b) ==
    IF a.dtype = "int16" /\ b.dtype = "int16"
    THEN [dtype |-> "int16",
          v |-> [k \in 1..BroadcastLen(a, b) |-> Wrap16(At(a, k) + At(b, k))]]
    ELSE [dtype |-> "float64",
          v |-> [k \in 1..BroadcastLen(a, b) |-> Halves(a, k) + Halves(b, k)]]

\* a * (-0.5), for an int16 array a
NpTimesMinusHalf(a) == [dtype |-> "float64", v |-> [k \in 1..Len(a.v) |-> -(a.v[k])]]

\* 0.5 * a, for an int16 array a
NpHalfTimes(a) == [dtype |-> "float64", v |-> [k \in 1..Len(a.v) |-> a.v[k]]]


(***************************************************************************)
(* The documents of the model.  A file is [kind, sections, waveforms]:     *)
(* kind says how far loading gets, sections are the metadata elements      *)
(* under the root, waveforms are its Waveform elements in document order,  *)
(* each the sequence of its LeadData elements [LeadID, WaveFormData].      *)
(***************************************************************************)
Sections == {"PatientDemographics", "Diagnosis", "TestDemographics",
             "RestingECGMeasurements"}

LeadNames == {"I", "II", "III", "aVR", "aVL", "aVF",
              "V1", "V2", "V3", "V4", "V5", "V6"}
DerivedLeads == {"III", "aVR", "aVL", "aVF"}
\* The lead IDs the caller asks getLeadVoltages for.
QueryIDs == {"I", "II", "III", "V6"}

\* The writer's side of the format: samples to little-endian bytes to base64.
ToBytesLE(samples) ==
    [k \in 1..(2 * Len(samples)) |->
        LET u == (samples[(k + 1) \div 2] + Int16Mod) % Int16Mod
        IN  IF k % 2 = 1 THEN u % ByteMod ELSE u \div ByteMod]

RECURSIVE B64Encode(_)
B64Encode(b) ==
    IF Len(b) = 0 THEN <<>>
    ELSE IF Len(b) = 1
    THEN <<b[1] \div 4, (b[1] % 4) * 16, PadChar, PadChar>>
    ELSE IF Len(b) = 2
    THEN <<b[1] \div 4, (b[1] % 4) * 16 + b[2] \div 16, (b[2] % 16) * 4, PadChar>>
    ELSE <<b[1] \div 4, (b[1] % 4) * 16 + b[2] \div 16,
           (b[2] % 16) * 4 + b[3] \div 64, b[3] % 64>>
         \o B64Encode(SubSeq(b, 4, Len(b)))

LeadNo ==
    "I" :> 1 @@ "II" :> 2 @@ "III" :> 3 @@ "aVR" :> 4 @@ "aVL" :> 5 @@ "aVF" :> 6
    @@ "V1" :> 11 @@ "V2" :> 12 @@ "V3" :> 13 @@ "V4" :> 14 @@ "V5" :> 15 @@ "V6" :> 16

\* Three recordings: A and C have two samples a lead, B has three and holds the
\* extreme values of the sample type in I and II.
SamplesA(id) ==
    CASE id = "I" -> <<1000, 2000>>
      [] id = "II" -> <<500, 1500>>
      [] OTHER -> <<LeadNo[id], -LeadNo[id]>>
SamplesB(id) ==
    CASE id = "I" -> <<32767, -32768, 32767>>
      [] id = "II" -> <<-32768, 32767, 32767>>
      [] OTHER -> <<-LeadNo[id], 300 + LeadNo[id], -400>>
SamplesC(id) ==
    CASE id = "I" -> <<100, -200>>
      [] id = "II" -> <<300, -400>>
      [] OTHER -> <<100 + LeadNo[id], -100 - LeadNo[id]>>

Lead(id, samples) == [LeadID |-> id, WaveFormData |-> B64Encode(ToBytesLE(samples))]
LeadRaw(id, data) == [LeadID |-> id, WaveFormData |-> data]
Samples(rec, id) ==
    CASE rec = "A" -> SamplesA(id)
      [] rec = "B" -> SamplesB(id)
      [] OTHER -> SamplesC(id)
NodeOf(ids, rec) == [k \in 1..Len(ids) |-> Lead(ids[k], Samples(rec, ids[k]))]
\* node with its k-th entry replaced
With(node, k, lead) == [node EXCEPT ![k] = lead]

Canon8 == <<"I", "II", "V1", "V2", "V3", "V4", "V5", "V6">>
Twelve == <<"I", "II", "III", "aVR", "aVL", "aVF", "V1", "V2", "V3", "V4", "V5", "V6">>
HalfA == <<"I", "II", "V1", "V2">>
WithIII8 == <<"I", "II", "III", "V1", "V2", "V3", "V4", "V5">>
NoI8 == <<"II", "III", "aVR", "V1", "V2", "V3", "V4", "V5">>
NoII8 == <<"I", "V1", "V2", "V3", "V4", "V5", "V6", "aVF">>
Dup8 == <<"I", "II", "II", "V1", "V2", "V3", "V4", "V5">>

\* Three bytes: valid base64 of a payload that is no whole number of samples.
OddPayload == B64Encode(<<1, 2, 3>>)
\* Three data characters and no pad: the input ends inside a quad.
BadPadding == <<16, 20, 9>>
\* A payload broken over two lines.
Wrapped(data) == SubSeq(data, 1, 4) \o <<NonAlpha>> \o SubSeq(data, 5, Len(data))

NodeTemplates ==
    { <<>>,
      NodeOf(<<"I">>, "A"),
      NodeOf(Canon8, "A"),
      NodeOf(Canon8, "B"),
      With(NodeOf(Canon8, "A"), 3, LeadRaw("V1", OddPayload)),
      With(NodeOf(Canon8, "A"), 8, LeadRaw("V6", BadPadding)),
      With(NodeOf(Canon8, "A"), 1, Lead("I", <<7>>)),
      With(NodeOf(Canon8, "A"), 2, Lead("II", SamplesB("II"))),
      NodeOf(HalfA, "A"),
      NodeOf(WithIII8, "A"),
      NodeOf(NoI8, "A"),
      NodeOf(NoII8, "A"),
      With(NodeOf(Dup8, "A"), 2, Lead("II", SamplesC("II"))),
      With(NodeOf(Twelve, "A"), 9,
           LeadRaw("V3", Wrapped(B64Encode(ToBytesLE(SamplesA("V3")))))) }

WaveLists == UNION {[1..n -> NodeTemplates] : n \in 0..MaxNodes}

\* unreadable: open or read fails; malformed: the parser rejects the text;
\* otherRoot: the root element is not RestingECG; emptyRoot: the root is an
\* empty RestingECG element; ok: a RestingECG root with child elements.  Only
\* an ok file's sections and waveforms are seen by the constructor.
FileKinds == {"unreadable", "malformed", "otherRoot", "emptyRoot", "ok"}
SectionChoices == {{}, {"PatientDemographics"}, {"Diagnosis", "RestingECGMeasurements"},
                   Sections}

File(kind, sections, waveforms) ==
    [kind |-> kind, sections |-> sections, waveforms |-> waveforms]

Files ==
    {File(k, s, w) : k \in FileKinds, s \in SectionChoices,
                     w \in {<<>>, <<NodeOf(Canon8, "A")>>}}
    \cup {File("ok", Sections, w) : w \in WaveLists}


(***************************************************************************)
(* xmltodict.parse: an element that occurs once under its parent is parsed *)
(* to one object, an element that occurs several times to a list, and an   *)
(* element that does not occur leaves no key.                              *)
(***************************************************************************)
Repeated(items) ==
    [shape |-> IF Len(items) = 0 THEN "absent"
               ELSE IF Len(items) = 1 THEN "object" ELSE "list",
     items |-> items]

XmlToDictParse(file) ==
    [kind |-> "dict",
     hasRoot |-> file.kind # "otherRoot",
     rootNone |-> file.kind = "emptyRoot",
     sections |-> file.sections,
     Waveform |-> Repeated([k \in 1..Len(file.waveforms) |->
                               [LeadData |-> Repeated(file.waveforms[k])]])]

NoTree == [kind |-> "unset", hasRoot |-> FALSE, rootNone |-> FALSE, sections |-> {},
           Waveform |-> Repeated(<<>>)]

\* self.ECG.get('RestingECG', {}).get(name, None) for a metadata section
AttrUnset == [kind |-> "unset", tree |-> ""]
AttrNone == [kind |-> "None", tree |-> ""]
GetSection(tree, name) ==
    IF tree.hasRoot /\ name \in tree.sections
    THEN [kind |-> "tree", tree |-> name]
    ELSE AttrNone

\* self.ECG.get('RestingECG', {}).get('Waveform', None)
GetWaveform(tree) == IF tree.hasRoot THEN tree.Waveform ELSE Repeated(<<>>)

(***************************************************************************)
(* makeLeadVoltages.  The loops carry [raised, exc, num_leads, leads]; an  *)
(* exception ends them with the locals as they were when it was raised.    *)
(***************************************************************************)
NoArray == NpInt16(<<>>)
EmptyDict == [id \in {} |-> NoArray]

\* d[key] = val
DictSetKeepFirst(d, key, val) == d @@ (key :> val)
DictSet(d, key, val) == (key :> val) @@ d

\* d[key]
DictGetOrZeros(d, key) ==
    IF key \in DOMAIN d THEN [raised |-> FALSE, val |-> d[key]]
    ELSE [raised |-> FALSE, val |-> NpInt16(<<0>>)]
DictGet(d, key) ==
    IF key \in DOMAIN d THEN [raised |-> FALSE, val |-> d[key]]
    ELSE [raised |-> TRUE, val |-> NoArray]

\* lines 82-84: the lead's samples, or the exception the decoding raises
DecodeLead(lead) ==
    LET b64 == B64Decode(lead.WaveFormData)
        arr == ArrayH(b64.bytes)
    IN  IF b64.raised THEN [raised |-> TRUE, exc |-> "binascii.Error", val |-> NoArray]
        ELSE IF arr.raised THEN [raised |-> TRUE, exc |-> "ValueError", val |-> NoArray]
        ELSE [raised |-> FALSE, exc |-> "", val |-> NpInt16(arr.vals)]

\* lines 78-87 over a list of lead entries
RECURSIVE LeadLoop(_, _, _)
LeadLoop(items, k, acc) ==
    IF acc.raised \/ k > Len(items) THEN acc
    ELSE LET n == acc.num_leads + 1
             dec == DecodeLead(items[k])
         IN  IF dec.raised
             THEN [acc EXCEPT !.raised = TRUE, !.exc = dec.exc, !.num_leads = n]
             ELSE LeadLoop(items, k + 1,
                           [acc EXCEPT !.num_leads = n,
                                       !.leads = DictSet(@, items[k].LeadID, dec.val)])

\* line 78: a LeadData that is one object is a dict, and the loop runs over its
\* keys; the first key is a string, which line 82 cannot index (TypeError).
LeadDataLoop(LeadData, acc) ==
    IF LeadData.shape = "object"
    THEN [acc EXCEPT !.raised = TRUE, !.exc = "TypeError", !.num_leads = @ + 1]
    ELSE LeadLoop(LeadData.items, 1, acc)

\* lines 73-75: a waveform without lead data
SkipWaveformCounting(acc) == [acc EXCEPT !.num_leads = @ + 1]
SkipWaveform(acc) == acc

\* lines 72-87
RECURSIVE WaveformLoop(_, _, _)
WaveformLoop(W, w, acc) ==
    IF acc.raised \/ w > Len(W) THEN acc
    ELSE IF W[w].LeadData.shape = "absent"
    THEN WaveformLoop(W, w + 1, SkipWaveform(acc))
    ELSE WaveformLoop(W, w + 1, LeadDataLoop(W[w].LeadData, acc))

\* lines 91-94, given that both inputs are there and their shapes broadcast.
\* The four assignments write keys other than "I" and "II", so every read of
\* leads['I'] and leads['II'] yields the same array.
AugmentInsertInPlace(d, I, II) ==
    LET l1 == DictSet(d, "III", NpSubtract(II, I))
        l2 == DictSet(l1, "aVR", NpTimesMinusHalf(NpAdd(I, II)))
        l3 == DictSet(DictSet(l2, "I", NpSubtract(I, NpHalfTimes(II))),
                      "aVL", NpSubtract(I, NpHalfTimes(II)))
    IN  DictSet(l3, "aVF", NpSubtract(II, NpHalfTimes(I)))
AugmentInsert(d, I, II) ==
    LET l1 == DictSet(d, "III", NpSubtract(II, I))
        l2 == DictSet(l1, "aVR", NpTimesMinusHalf(NpAdd(I, II)))
        l3 == DictSet(l2, "aVL", NpSubtract(I, NpHalfTimes(II)))
    IN  DictSet(l3, "aVF", NpSubtract(II, NpHalfTimes(I)))

\* lines 91-94: leads['II'] and leads['I'] raise KeyError when absent, and
\* np.subtract raises ValueError when the shapes do not broadcast.
Augment(d) ==
    LET gII == DictGet(d, "II")
        gI == DictGet(d, "I")
    IN  IF gII.raised \/ gI.raised
        THEN [raised |-> TRUE, exc |-> "KeyError", leads |-> d]
        ELSE IF ~Broadcastable(gII.val, gI.val)
        THEN [raised |-> TRUE, exc |-> "ValueError", leads |-> d]
        ELSE [raised |-> FALSE, exc |-> "", leads |-> AugmentInsert(d, gI.val, gII.val)]

\* lines 64-96: [raised, exc, num_leads, leads (the mapping the loops built),
\* result (the mapping returned)]
MakeLeadVoltages(W, flag) ==
    IF Len(W) = 0
    THEN [raised |-> FALSE, exc |-> "", num_leads |-> 0, leads |-> EmptyDict,
          result |-> EmptyDict]
    ELSE LET loop == WaveformLoop(W, 1, [raised |-> FALSE, exc |-> "", num_leads |-> 0,
                                         leads |-> EmptyDict])
         IN  IF loop.raised
             THEN [raised |-> TRUE, exc |-> loop.exc, num_leads |-> loop.num_leads,
                   leads |-> loop.leads, result |-> EmptyDict]
             ELSE IF loop.num_leads = AugmentCount /\ flag
             THEN LET aug == Augment(loop.leads)
                  IN  [raised |-> aug.raised, exc |-> aug.exc,
                       num_leads |-> loop.num_leads, leads |-> loop.leads,
                       result |-> IF aug.raised THEN EmptyDict ELSE aug.leads]
             ELSE [raised |-> FALSE, exc |-> "", num_leads |-> loop.num_leads,
                   leads |-> loop.leads, result |-> loop.leads]


(***************************************************************************)
(* The query methods, as functions of the attribute self.LeadVoltages      *)
(* ([kind, d]: None, or a dict d).                                         *)
(***************************************************************************)
LVUnset == [kind |-> "unset", d |-> EmptyDict]
LVNone == [kind |-> "None", d |-> EmptyDict]
LVDict(d) == [kind |-> "dict", d |-> d]

\* python truth value of self.LeadVoltages: None and {} are false
Truthy(lv) == lv.kind = "dict" /\ DOMAIN lv.d # {}

\* line 108
GetLeadVoltagesValue(lv, LeadID) ==
    IF Truthy(lv) /\ LeadID \in DOMAIN lv.d
    THEN [kind |-> "array", arr |-> lv.d[LeadID]]
    ELSE [kind |-> "None", arr |-> NoArray]

\* line 117
GetAllVoltagesValue(lv) == IF Truthy(lv) THEN lv ELSE LVDict(EmptyDict)

(***************************************************************************)
(* The state: the file at path and the flag the constructor is called      *)
(* with, the constructor's position pc and the exception in flight, the    *)
(* instance's attributes, the locals num_leads and leads of                *)
(* makeLeadVoltages as its loops left them, and the outcome ret of the     *)
(* last query made on the constructed instance.                            *)
(***************************************************************************)
VARIABLES xmlFile, augmentLeads, pc, exc, ECG, PatientDemographics, Diagnosis,
          TestDemographics, RestingECGMeasurements, Waveforms, num_leads, leads,
          LeadVoltages, ret

vars == <<xmlFile, augmentLeads, pc, exc, ECG, PatientDemographics, Diagnosis,
          TestDemographics, RestingECGMeasurements, Waveforms, num_leads, leads,
          LeadVoltages, ret>>

WFUnset == [kind |-> "unset", items |-> <<>>]
WFNone == [kind |-> "None", items |-> <<>>]

NoRet == [op |-> "", arg |-> "", raised |-> FALSE, kind |-> "", arr |-> NoArray,
          dict |-> EmptyDict, tree |-> ""]

Init ==
    /\ xmlFile \in Files
    /\ augmentLeads \in BOOLEAN
    /\ pc = "open"
    /\ exc = ""
    /\ ECG = NoTree
    /\ PatientDemographics = AttrUnset
    /\ Diagnosis = AttrUnset
    /\ TestDemographics = AttrUnset
    /\ RestingECGMeasurements = AttrUnset
    /\ Waveforms = WFUnset
    /\ num_leads = 0
    /\ leads = EmptyDict
    /\ LeadVoltages = LVUnset
    /\ ret = NoRet

\* lines 28-33: open, read, decode and parse the file
ReadAndParse ==
    /\ pc = "open"
    /\ IF xmlFile.kind = "unreadable"
       THEN pc' = "except" /\ exc' = "OSError" /\ UNCHANGED ECG
       ELSE IF xmlFile.kind = "malformed"
       THEN pc' = "except" /\ exc' = "ExpatError" /\ UNCHANGED ECG
       ELSE pc' = "sections" /\ ECG' = XmlToDictParse(xmlFile) /\ UNCHANGED exc
    /\ UNCHANGED <<xmlFile, augmentLeads, PatientDemographics, Diagnosis,
                   TestDemographics, RestingECGMeasurements, Waveforms, num_leads,
                   leads, LeadVoltages, ret>>

\* lines 36-39: an empty root element is parsed to None, which has no get
ExtractSections ==
    /\ pc = "sections"
    /\ IF ECG.hasRoot /\ ECG.rootNone
       THEN /\ pc' = "except"
            /\ exc' = "AttributeError"
            /\ UNCHANGED <<PatientDemographics, Diagnosis, TestDemographics,
                           RestingECGMeasurements>>
       ELSE /\ pc' = "waveform"
            /\ PatientDemographics' = GetSection(ECG, "PatientDemographics")
            /\ Diagnosis' = GetSection(ECG, "Diagnosis")
            /\ TestDemographics' = GetSection(ECG, "TestDemographics")
            /\ RestingECGMeasurements' = GetSection(ECG, "RestingECGMeasurements")
            /\ UNCHANGED exc
    /\ UNCHANGED <<xmlFile, augmentLeads, ECG, Waveforms, num_leads, leads,
                   LeadVoltages, ret>>

\* lines 42-47
NormaliseWaveform ==
    /\ pc = "waveform"
    /\ LET waveform_data == GetWaveform(ECG)
       IN  IF waveform_data.shape = "absent"
           THEN pc' = "except" /\ exc' = "KeyError" /\ UNCHANGED Waveforms
           ELSE /\ pc' = "decode"
                /\ Waveforms' = [kind |-> "list",
                                 items |-> IF waveform_data.shape = "list"
                                           THEN waveform_data.items
                                           ELSE <<waveform_data.items[1]>>]
                /\ UNCHANGED exc
    /\ UNCHANGED <<xmlFile, augmentLeads, ECG, PatientDemographics, Diagnosis,
                   TestDemographics, RestingECGMeasurements, num_leads, leads,
                   LeadVoltages, ret>>

\* line 50: self.LeadVoltages = self.makeLeadVoltages()
CallMakeLeadVoltages ==
    /\ pc = "decode"
    /\ LET r == MakeLeadVoltages(Waveforms.items, augmentLeads)
       IN  /\ num_leads' = r.num_leads
           /\ leads' = r.leads
           /\ IF r.raised
              THEN pc' = "except" /\ exc' = r.exc /\ UNCHANGED LeadVoltages
              ELSE pc' = "done" /\ LeadVoltages' = LVDict(r.result) /\ UNCHANGED exc
    /\ UNCHANGED <<xmlFile, augmentLeads, ECG, PatientDemographics, Diagnosis,
                   TestDemographics, RestingECGMeasurements, Waveforms, ret>>

\* lines 52-55
ExceptHandlerKeeping ==
    /\ pc = "except"
    /\ pc' = "done"
    /\ exc' = ""
    /\ Waveforms' = WFNone
    /\ UNCHANGED <<xmlFile, augmentLeads, ECG, PatientDemographics, Diagnosis,
                   TestDemographics, RestingECGMeasurements, num_leads, leads,
                   LeadVoltages, ret>>
ExceptHandler ==
    /\ pc = "except"
    /\ pc' = "done"
    /\ exc' = ""
    /\ Waveforms' = WFNone
    /\ LeadVoltages' = LVNone
    /\ UNCHANGED <<xmlFile, augmentLeads, ECG, PatientDemographics, Diagnosis,
                   TestDemographics, RestingECGMeasurements, num_leads, leads, ret>>

\* lines 98-108, on the constructed instance
getLeadVoltages(LeadID) ==
    /\ pc = "done"
    /\ LET r == GetLeadVoltagesValue(LeadVoltages, LeadID)
       IN  ret' = [NoRet EXCEPT !.op = "getLeadVoltages", !.arg = LeadID,
                                !.raised = LeadVoltages.kind = "unset",
                                !.kind = r.kind, !.arr = r.arr]
    /\ UNCHANGED <<xmlFile, augmentLeads, pc, exc, ECG, PatientDemographics, Diagnosis,
                   TestDemographics, RestingECGMeasurements, Waveforms, num_leads,
                   leads, LeadVoltages>>

\* lines 110-117, on the constructed instance
getAllVoltages ==
    /\ pc = "done"
    /\ LET r == GetAllVoltagesValue(LeadVoltages)
       IN  ret' = [NoRet EXCEPT !.op = "getAllVoltages",
                                !.raised = LeadVoltages.kind = "unset",
                                !.kind = r.kind, !.dict = r.d]
    /\ UNCHANGED <<xmlFile, augmentLeads, pc, exc, ECG, PatientDemographics, Diagnosis,
                   TestDemographics, RestingECGMeasurements, Waveforms, num_leads,
                   leads, LeadVoltages>>

\* reading a metadata attribute of the constructed instance: an attribute the
\* constructor never assigned raises AttributeError
SectionAttr(name) ==
    CASE name = "PatientDemographics" -> PatientDemographics
      [] name = "Diagnosis" -> Diagnosis
      [] name = "TestDemographics" -> TestDemographics
      [] OTHER -> RestingECGMeasurements

ReadSection(name) ==
    /\ pc = "done"
    /\ LET a == SectionAttr(name)
       IN  ret' = [NoRet EXCEPT !.op = "section", !.arg = name,
                                !.raised = a.kind = "unset",
                                !.kind = a.kind, !.tree = a.tree]
    /\ UNCHANGED <<xmlFile, augmentLeads, pc, exc, ECG, PatientDemographics, Diagnosis,
                   TestDemographics, RestingECGMeasurements, Waveforms, num_leads,
                   leads, LeadVoltages>>

Next ==
    \/ ReadAndParse
    \/ ExtractSections
    \/ NormaliseWaveform
    \/ CallMakeLeadVoltages
    \/ ExceptHandler
    \/ \E LeadID \in QueryIDs : getLeadVoltages(LeadID)
    \/ getAllVoltages
    \/ \E name \in Sections : ReadSection(name)

Spec == Init /\ [][Next]_vars


(***************************************************************************)
(* What the claims speak of, read off the input document.                  *)
(***************************************************************************)
RECURSIVE Flatten(_)
Flatten(nodes) == IF Len(nodes) = 0 THEN <<>> ELSE Head(nodes) \o Flatten(Tail(nodes))

\* every lead entry of the document, in document order
AllEntries == Flatten(xmlFile.waveforms)
IDsOf(E) == {E[k].LeadID : k \in DOMAIN E}
SourceIDs == IDsOf(AllEntries)
\* the last entry of E that bears the id
LastOf(E, id) ==
    E[CHOOSE k \in DOMAIN E : E[k].LeadID = id /\ \A j \in (k + 1)..Len(E) : E[j].LeadID # id]

\* the file is read, parsed and holds a waveform section
Loaded == xmlFile.kind = "ok" /\ Len(xmlFile.waveforms) > 0
\* the metadata sub-trees the parsed document holds
PresentSections == IF xmlFile.kind = "ok" THEN xmlFile.sections ELSE {}
\* the constructor returned with a mapping
Constructed == pc = "done" /\ LeadVoltages.kind = "dict"
\* the derivation ran and the constructor returned its mapping
Fired == Constructed /\ augmentLeads /\ num_leads = AugmentCount

\* the sample sequence a payload is the encoding of
KnownSamples ==
    UNION {{SamplesA(id), SamplesB(id), SamplesC(id)} : id \in LeadNames} \cup {<<7>>}
IsEncoding(data) == \E s \in KnownSamples : B64Encode(ToBytesLE(s)) = data
SamplesOf(data) == CHOOSE s \in KnownSamples : B64Encode(ToBytesLE(s)) = data

\* C1: when one lead entry of a loaded document fails to decode, only that
\* lead is skipped: every entry that decodes is present in getAllVoltages()
\* and getLeadVoltages returns its samples.  (Stated on documents all of whose
\* waveform nodes hold several lead entries.)
C1_OnlyBadLeadSkipped ==
    (/\ pc = "done"
     /\ Loaded
     /\ \A w \in DOMAIN xmlFile.waveforms : Len(xmlFile.waveforms[w]) # 1
     /\ \E k \in DOMAIN AllEntries : DecodeLead(AllEntries[k]).raised)
    => LET E == AllEntries
       IN  \A k \in DOMAIN E :
              ~DecodeLead(E[k]).raised
              => /\ E[k].LeadID \in DOMAIN GetAllVoltagesValue(LeadVoltages).d
                 /\ GetLeadVoltagesValue(LeadVoltages, E[k].LeadID).kind = "array"

\* C2: the leads III, aVR, aVL and aVF are derived only when the flag is set
\* and exactly 8 distinct lead IDs were decoded; in every other case the
\* mapping of a constructed instance holds exactly the entries decoded from
\* the source.
C2_DerivedOnlyForEightDistinct ==
    Constructed
    => (augmentLeads /\ Cardinality(SourceIDs) = AugmentCount)
       \/ LeadVoltages.d = leads

\* C3: when the derivation fires on I and II of equal length, the derived
\* leads hold the exact values II - I, -0.5 (I + II), I - 0.5 II and
\* II - 0.5 I at every index, without wrap-around.
C3_DerivedExact ==
    (Fired /\ Len(leads["I"].v) = Len(leads["II"].v))
    => \A k \in 1..Len(leads["I"].v) :
          LET I == leads["I"].v[k]
              II == leads["II"].v[k]
          IN  /\ Halves(LeadVoltages.d["III"], k) = 2 * (II - I)
              /\ Halves(LeadVoltages.d["aVR"], k) = -(I + II)
              /\ Halves(LeadVoltages.d["aVL"], k) = 2 * I - II
              /\ Halves(LeadVoltages.d["aVF"], k) = 2 * II - I

\* C4: after a load failure (file unreadable, XML malformed, waveform section
\* absent) the constructor has returned without raising, getAllVoltages()
\* returns an empty mapping and never a null value, getLeadVoltages returns
\* "not found" for every lead ID, and no query raises, whatever queries were
\* made before.
C4_LoadFailureQueriesEmpty ==
    (pc = "done" /\ ~Loaded)
    => /\ exc = ""
       /\ GetAllVoltagesValue(LeadVoltages) = LVDict(EmptyDict)
       /\ \A id \in LeadNames : GetLeadVoltagesValue(LeadVoltages, id).kind = "None"
       /\ ret.op = "getAllVoltages"
          => ~ret.raised /\ ret.kind = "dict" /\ ret.dict = EmptyDict
       /\ ret.op = "getLeadVoltages" => ~ret.raised /\ ret.kind = "None"

C4_Witness ==
    /\ pc = "done"
    /\ xmlFile.kind = "unreadable"
    /\ ret.op = "getLeadVoltages"
    /\ ret.arg = "I"
    /\ ret.kind = "None"

\* C5: whatever the outcome of the construction, reading PatientDemographics,
\* Diagnosis, TestDemographics or RestingECGMeasurements yields the sub-tree
\* of the document or "absent", and never an error.
C5_MetadataNeverRaises ==
    (pc = "done" /\ ret.op = "section")
    => /\ ~ret.raised
       /\ IF ret.arg \in PresentSections
          THEN ret.kind = "tree" /\ ret.tree = ret.arg
          ELSE ret.kind = "None"

\* C6: when the derivation is requested and 8 lead entries were counted but
\* lead I or lead II is not among the decoded leads, the construction exposes
\* no mapping at all: no derived entry and no partly augmented mapping.
C6_NoFabrication ==
    (/\ pc = "done"
     /\ Loaded
     /\ augmentLeads
     /\ Len(AllEntries) = AugmentCount
     /\ ("I" \notin SourceIDs \/ "II" \notin SourceIDs))
    => /\ LeadVoltages = LVNone
       /\ GetAllVoltagesValue(LeadVoltages).d = EmptyDict
       /\ \A id \in LeadNames : GetLeadVoltagesValue(LeadVoltages, id).kind = "None"
       /\ ret.op = "getAllVoltages" => ret.dict = EmptyDict
       /\ ret.op = "getLeadVoltages" => ret.kind = "None"

C6_Witness ==
    /\ pc = "done"
    /\ augmentLeads
    /\ xmlFile.waveforms = <<NodeOf(NoI8, "A")>>
    /\ num_leads = AugmentCount
    /\ DOMAIN leads = SourceIDs
    /\ ret.op = "getLeadVoltages"
    /\ ret.arg = "III"
    /\ ret.kind = "None"

C8_RoundTrip ==
    (/\ pc = "done"
     /\ Loaded
     /\ ~augmentLeads
     /\ \A k \in DOMAIN AllEntries : IsEncoding(AllEntries[k].WaveFormData))
    => LET E == AllEntries
       IN  \A id \in IDsOf(E) :
              GetLeadVoltagesValue(LeadVoltages, id)
                 = [kind |-> "array", arr |-> NpInt16(SamplesOf(LastOf(E, id).WaveFormData))]

C10_SourceLeadsNeverOverwritten ==
    Fired => \A id \in DOMAIN leads : LeadVoltages.d[id] = leads[id]

\* C10 as amended: when the derivation fires, the value of every LeadID decoded
\* from the source other than III, aVR, aVL and aVF is left unchanged, and the
\* keys III, aVR, aVL and aVF hold the derived arrays, which replace a source
\* lead of that name.
C10_OnlyDerivedNamesOverwritten ==
    Fired
    => /\ DOMAIN LeadVoltages.d = DOMAIN leads \cup DerivedLeads
       /\ \A id \in DOMAIN leads \ DerivedLeads : LeadVoltages.d[id] = leads[id]
       /\ LeadVoltages.d["III"].dtype = "int16"
       /\ \A id \in DerivedLeads \ {"III"} : LeadVoltages.d[id].dtype = "float64"
       /\ \A k \in 1..BroadcastLen(leads["I"], leads["II"]) :
             LET I == At(leads["I"], k)
                 II == At(leads["II"], k)
             IN  /\ LeadVoltages.d["III"].v[k] = Wrap16(II - I)
                 /\ LeadVoltages.d["aVR"].v[k] = -Wrap16(I + II)
                 /\ LeadVoltages.d["aVL"].v[k] = 2 * I - II
                 /\ LeadVoltages.d["aVF"].v[k] = 2 * II - I

C10_Witness ==
    /\ Fired
    /\ xmlFile.waveforms = <<NodeOf(WithIII8, "A")>>
    /\ ret.op = "getLeadVoltages"
    /\ ret.arg = "III"
    /\ ret.arr.v = <<-500, -500>>

====
